---- MODULE Spec2Model ----
(***************************************************************************)
(* Session/transport multiplexer of the public MetaMCP streamable-HTTP     *)
(* router (apps/backend/src/routers/public-metamcp/streamable-http.ts).    *)
(*                                                                         *)
(* Every inbound request is one task on the single-threaded event loop.    *)
(* A handler runs atomically from one `await` to the next, so each action  *)
(* below is one such synchronous segment; segments of different requests   *)
(* interleave freely.  An awaited external call (createServer, connect,    *)
(* handleRequest, close, cleanupSessionConnections, cleanup) either        *)
(* resolves or rejects.                                                    *)
(***************************************************************************)
EXTENDS Integers, Sequences, FiniteSets, TLC

(* ------------------------------ bounds -------------------------------- *)

\* number of requests that arrive over one execution
MaxRequests == 3

\* number of awaited external calls that may reject over one execution
MaxFailures == 1

(* ----------------------------- constants ------------------------------ *)

\* published endpoint names (req.params.endpoint_name)
Endpoints == {"shared", "weather"}

\* the mcp-session-id header is absent (sessionId is undefined)
NoSid == 0

\* a well-formed session id that randomUUID never returned
GhostSid == MaxRequests + 1

\* no instance / no transport held in a handler's local variable
NoInstance == 0

NoTransport == 0

\* the response has not been sent yet
NoStatus == 0

VARIABLES
    transports,             \* Record<sessionId, transport>            (line 24)
    metamcpServers,         \* Record<endpointName, serverInstance>    (line 25)
    endpointSessionCounts,  \* Record<endpointName, number>            (line 34)
    requests,               \* the request tasks, in order of arrival
    uuids,                  \* number of values randomUUID has returned
    created,                \* created[i]: endpoint of the i-th createServer call
    cleanupCalls,           \* cleanupCalls[i]: invocations of instance i's cleanup()
    sessions,               \* history: what each registered session was bound to
    failures,               \* number of external calls that have rejected
    routed,                 \* the requests in, or through, the middleware chain
    retry                   \* the one call of retryDbQuery   (auth0.ts, line 31)

vars == <<transports, metamcpServers, endpointSessionCounts, requests, uuids,
          created, cleanupCalls, sessions, failures, routed, retry>>

(* ------------------------------ helpers ------------------------------- *)

\* endpointSessionCounts[endpointName] || 0
SessionCount(endpointName) ==
    IF endpointName \in DOMAIN endpointSessionCounts
    THEN endpointSessionCounts[endpointName]
    ELSE 0

\* {}
EmptyRecord == [k \in {} |-> 0]

\* delete obj[key]
Delete(obj, key) == [k \in (DOMAIN obj) \ {key} |-> obj[k]]

\* obj[key] = value
Store(obj, key, value) ==
    [k \in (DOMAIN obj) \cup {key} |-> IF k = key THEN value ELSE obj[k]]

\* randomUUID(): a value never returned before
RandomUUID == uuids + 1

\* new StreamableHTTPServerTransport(...): the object built by request r
NewTransport(r) == r

\* the session ids a client can have learned: those of Begin requests whose
\* first handleRequest was reached (the response carries the id)
KnownSids == {s \in DOMAIN sessions : sessions[s].connected}

\* the values a client can send as mcp-session-id
SentSids == KnownSids \cup {GhostSid}

\* a registry that is never pruned: the transport ever stored for the id
LookupStale(sessionId) ==
    IF sessionId \in DOMAIN sessions
    THEN sessions[sessionId].transport
    ELSE NoTransport

\* one shared transport instead of one per session: the latest one stored
LookupShared(sessionId) ==
    IF sessionId \in DOMAIN transports
    THEN CHOOSE t \in {transports[k] : k \in DOMAIN transports} :
             \A k \in DOMAIN transports : transports[k] <= t
    ELSE NoTransport

\* transports[sessionId], undefined when there is no such key
Lookup(sessionId) ==
    IF sessionId \in DOMAIN transports THEN transports[sessionId] ELSE NoTransport

NewRequest(kind, endpointName, sessionId) ==
    [kind |-> kind, ep |-> endpointName, sid |-> sessionId, pc |-> "done",
     status |-> NoStatus, newSid |-> NoSid, inst |-> NoInstance,
     target |-> NoTransport]

CanArrive == Len(requests) < MaxRequests

CanFail == failures < MaxFailures

\* retryDbQuery has not been called
NotCalled ==
    [given |-> FALSE, retries |-> 0, attempt |-> 0, outcomes |-> <<>>,
     pc |-> "idle", settled |-> 0]

Init ==
    /\ transports = EmptyRecord
    /\ metamcpServers = EmptyRecord
    /\ endpointSessionCounts = EmptyRecord
    /\ requests = <<>>
    /\ uuids = 0
    /\ created = <<>>
    /\ cleanupCalls = <<>>
    /\ sessions = EmptyRecord
    /\ failures = 0
    /\ routed = <<>>
    /\ retry = NotCalled

(* ------------------------- request bookkeeping ------------------------ *)

\* request r is suspended at the await named by `at`
Suspended(r, at) == r \in DOMAIN requests /\ requests[r].pc = at

\* request r resumes and runs to its next await (or to its response)
Resume(r, fields) ==
    requests' = [requests EXCEPT ![r] = fields @@ requests[r]]

\* request r sends its response; the handler's locals go out of scope
Respond(r, status) ==
    Resume(r, [pc |-> "done", status |-> status, inst |-> NoInstance,
               target |-> NoTransport])

Reject == failures' = failures + 1

(* ------------------ createMetaMcpServer (lines 37-60) ------------------ *)

\* lines 43-48: a cached instance is returned without calling createServer
CacheHit(endpointName) == endpointName \in DOMAIN metamcpServers

(* ------------------ cleanupSession (lines 79-99) ----------------------- *)

\* the decrement without its guard
DecrementUnguarded(counts, endpointName) ==
    IF endpointName \in DOMAIN counts
    THEN [counts EXCEPT ![endpointName] = @ - 1]
    ELSE counts

\* lines 90-92: if (endpointSessionCounts[endpointName] > 0) ...--
Decrement(counts, endpointName) ==
    IF endpointName \in DOMAIN counts /\ counts[endpointName] > 0
    THEN [counts EXCEPT ![endpointName] = @ - 1]
    ELSE counts

\* lines 64-67: the endpoint has no counted session and an instance is cached
Unused(endpointName) ==
    SessionCount(endpointName) <= 0 /\ endpointName \in DOMAIN metamcpServers

(* ------------------ POST without mcp-session-id: Begin ----------------- *)

\* lines 239-253: the id is generated, then createMetaMcpServer runs up to
\* its first await: a cache hit returns at once, a miss calls createServer
PostBegin(endpointName) ==
    /\ CanArrive
    /\ uuids' = uuids + 1
    /\ IF CacheHit(endpointName)
       THEN /\ requests' = Append(requests,
                   [NewRequest("POST", endpointName, NoSid) EXCEPT
                       !.pc = "acquired", !.newSid = RandomUUID,
                       !.inst = metamcpServers[endpointName]])
            /\ UNCHANGED <<created, cleanupCalls>>
       ELSE /\ requests' = Append(requests,
                   [NewRequest("POST", endpointName, NoSid) EXCEPT
                       !.pc = "creating", !.newSid = RandomUUID,
                       !.inst = Len(created) + 1])
            /\ created' = Append(created, endpointName)
            /\ cleanupCalls' = Append(cleanupCalls, 0)
    /\ UNCHANGED <<transports, metamcpServers, endpointSessionCounts,
                   sessions, failures>>

\* lines 50-59: createServer resolved; the instance is cached by endpoint name
CreateServerResolved(r) ==
    /\ Suspended(r, "creating")
    /\ metamcpServers' = Store(metamcpServers, requests[r].ep, requests[r].inst)
    /\ Resume(r, [pc |-> "acquired"])
    /\ UNCHANGED <<transports, endpointSessionCounts, uuids, created,
                   cleanupCalls, sessions, failures>>

\* line 50 throws; lines 299-302 answer 500
CreateServerRejected(r) ==
    /\ Suspended(r, "creating")
    /\ CanFail
    /\ Reject
    /\ Respond(r, 500)
    /\ UNCHANGED <<transports, metamcpServers, endpointSessionCounts, uuids,
                   created, cleanupCalls, sessions>>

\* lines 258-295: the count is incremented, the transport is built and stored
\* under the new session id, and server.connect(transport) is called
BeginAcquired(r) ==
    /\ Suspended(r, "acquired")
    /\ endpointSessionCounts' =
           Store(endpointSessionCounts, requests[r].ep,
                 SessionCount(requests[r].ep) + 1)
    /\ transports' = Store(transports, requests[r].newSid, NewTransport(r))
    /\ sessions' = Store(sessions, requests[r].newSid,
           [ep |-> requests[r].ep, inst |-> requests[r].inst,
            transport |-> NewTransport(r), connected |-> FALSE])
    /\ Resume(r, [pc |-> "connecting"])
    /\ UNCHANGED <<metamcpServers, uuids, created, cleanupCalls, failures>>

\* lines 295-298: connect resolved; the first handleRequest is called
ConnectResolved(r) ==
    /\ Suspended(r, "connecting")
    /\ sessions' = [sessions EXCEPT ![requests[r].newSid].connected = TRUE]
    /\ Resume(r, [pc |-> "handling"])
    /\ UNCHANGED <<transports, metamcpServers, endpointSessionCounts, uuids,
                   created, cleanupCalls, failures>>

\* line 295 throws; lines 299-302 answer 500
ConnectRejected(r) ==
    /\ Suspended(r, "connecting")
    /\ CanFail
    /\ Reject
    /\ Respond(r, 500)
    /\ UNCHANGED <<transports, metamcpServers, endpointSessionCounts, uuids,
                   created, cleanupCalls, sessions>>

\* line 298: the first handleRequest resolved; the transport has answered
BeginHandled(r) ==
    /\ Suspended(r, "handling")
    /\ Respond(r, 200)
    /\ UNCHANGED <<transports, metamcpServers, endpointSessionCounts, uuids,
                   created, cleanupCalls, sessions, failures>>

\* line 298 throws; lines 299-302 answer 500
BeginHandleRejected(r) ==
    /\ Suspended(r, "handling")
    /\ CanFail
    /\ Reject
    /\ Respond(r, 500)
    /\ UNCHANGED <<transports, metamcpServers, endpointSessionCounts, uuids,
                   created, cleanupCalls, sessions>>

(* ------------- GET / POST with mcp-session-id: Continue ---------------- *)

\* lines 216-222 and 310-319: the transport is looked up by session id; a
\* miss is answered 404, a hit is forwarded to transport.handleRequest
Dispatch(kind, endpointName, sessionId) ==
    /\ requests' = Append(requests,
           IF Lookup(sessionId) = NoTransport
           THEN [NewRequest(kind, endpointName, sessionId) EXCEPT
                    !.status = 404]
           ELSE [NewRequest(kind, endpointName, sessionId) EXCEPT
                    !.pc = "forwarding", !.target = Lookup(sessionId)])
    /\ UNCHANGED <<transports, metamcpServers, endpointSessionCounts, uuids,
                   created, cleanupCalls, sessions, failures>>

\* lines 202-228: streamableHttpRouter.get
GetStream(endpointName, sessionId) ==
    /\ CanArrive
    /\ Dispatch("GET", endpointName, sessionId)

\* lines 303-324: streamableHttpRouter.post, session id present
PostContinue(endpointName, sessionId) ==
    /\ CanArrive
    /\ sessionId # NoSid
    /\ Dispatch("POST", endpointName, sessionId)

\* lines 221 and 318: handleRequest resolved; the transport has answered
Forwarded(r) ==
    /\ Suspended(r, "forwarding")
    /\ Respond(r, 200)
    /\ UNCHANGED <<transports, metamcpServers, endpointSessionCounts, uuids,
                   created, cleanupCalls, sessions, failures>>

\* lines 221 and 318 throw; lines 223-226 and 320-323 answer 500
ForwardRejected(r) ==
    /\ Suspended(r, "forwarding")
    /\ CanFail
    /\ Reject
    /\ Respond(r, 500)
    /\ UNCHANGED <<transports, metamcpServers, endpointSessionCounts, uuids,
                   created, cleanupCalls, sessions>>

(* ------------------------- DELETE: End --------------------------------- *)

\* lines 341-353 and 79-95: without a session id the answer is 400; else
\* cleanupSession runs to its first await: a registered transport is removed
\* and closed; with none registered the count of the endpoint named in the
\* request is decremented at once and cleanupSessionConnections is called
DeleteSession(endpointName, sessionId) ==
    /\ CanArrive
    /\ IF sessionId = NoSid
       THEN /\ requests' = Append(requests,
                   [NewRequest("DELETE", endpointName, sessionId) EXCEPT
                       !.status = 400])
            /\ UNCHANGED <<transports, endpointSessionCounts>>
       ELSE IF Lookup(sessionId) # NoTransport
       THEN /\ requests' = Append(requests,
                   [NewRequest("DELETE", endpointName, sessionId) EXCEPT
                       !.pc = "closing", !.target = Lookup(sessionId)])
            /\ transports' = Delete(transports, sessionId)
            /\ UNCHANGED endpointSessionCounts
       ELSE /\ requests' = Append(requests,
                   [NewRequest("DELETE", endpointName, sessionId) EXCEPT
                       !.pc = "hook"])
            /\ endpointSessionCounts' =
                   Decrement(endpointSessionCounts, endpointName)
            /\ UNCHANGED transports
    /\ UNCHANGED <<metamcpServers, uuids, created, cleanupCalls, sessions,
                   failures>>

\* the endpoint is released as soon as the transport is closed, without
\* running cleanupSessionConnections first
CloseResolvedEager(r) ==
    /\ Suspended(r, "closing")
    /\ endpointSessionCounts' =
           Decrement(endpointSessionCounts, requests[r].ep)
    /\ IF requests[r].ep \in DOMAIN metamcpServers
       THEN /\ Resume(r, [pc |-> "teardown",
                          inst |-> metamcpServers[requests[r].ep]])
            /\ cleanupCalls' =
                   [cleanupCalls EXCEPT ![metamcpServers[requests[r].ep]] = @ + 1]
       ELSE /\ Resume(r, [pc |-> "hook"])
            /\ UNCHANGED cleanupCalls
    /\ UNCHANGED <<transports, metamcpServers, uuids, created, sessions,
                   failures>>

\* lines 86-95: transport.close() resolved; the count of the endpoint named in
\* the request is decremented and cleanupSessionConnections is called
CloseResolved(r) ==
    /\ Suspended(r, "closing")
    /\ endpointSessionCounts' =
           Decrement(endpointSessionCounts, requests[r].ep)
    /\ Resume(r, [pc |-> "hook"])
    /\ UNCHANGED <<transports, metamcpServers, uuids, created, cleanupCalls,
                   sessions, failures>>

\* line 86 throws; lines 348-351 answer 500
CloseRejected(r) ==
    /\ Suspended(r, "closing")
    /\ CanFail
    /\ Reject
    /\ Respond(r, 500)
    /\ UNCHANGED <<transports, metamcpServers, endpointSessionCounts, uuids,
                   created, cleanupCalls, sessions>>

\* lines 95-98 and 63-71: cleanupSessionConnections resolved and
\* cleanupEndpointIfUnused runs to its await: an unused endpoint's cached
\* instance has its cleanup() called; otherwise the request is answered 200
HookResolved(r) ==
    /\ Suspended(r, "hook")
    /\ IF Unused(requests[r].ep)
       THEN /\ Resume(r, [pc |-> "teardown",
                          inst |-> metamcpServers[requests[r].ep]])
            /\ cleanupCalls' =
                   [cleanupCalls EXCEPT ![metamcpServers[requests[r].ep]] = @ + 1]
       ELSE /\ Respond(r, 200)
            /\ UNCHANGED cleanupCalls
    /\ UNCHANGED <<transports, metamcpServers, endpointSessionCounts, uuids,
                   created, sessions, failures>>

\* line 95 throws; lines 348-351 answer 500
HookRejected(r) ==
    /\ Suspended(r, "hook")
    /\ CanFail
    /\ Reject
    /\ Respond(r, 500)
    /\ UNCHANGED <<transports, metamcpServers, endpointSessionCounts, uuids,
                   created, cleanupCalls, sessions>>

\* lines 71-73: cleanup() resolved; the endpoint's instance and count are
\* deleted and the request is answered 200
CleanupResolved(r) ==
    /\ Suspended(r, "teardown")
    /\ metamcpServers' = Delete(metamcpServers, requests[r].ep)
    /\ endpointSessionCounts' = Delete(endpointSessionCounts, requests[r].ep)
    /\ Respond(r, 200)
    /\ UNCHANGED <<transports, uuids, created, cleanupCalls, sessions,
                   failures>>

\* line 71 throws: lines 72-73 are skipped; lines 348-351 answer 500
CleanupRejected(r) ==
    /\ Suspended(r, "teardown")
    /\ CanFail
    /\ Reject
    /\ Respond(r, 500)
    /\ UNCHANGED <<transports, metamcpServers, endpointSessionCounts, uuids,
                   created, cleanupCalls, sessions>>

(* --------------------------- specification ----------------------------- *)

Requests == 1..MaxRequests

Next ==
    \/ (\E e \in Endpoints : PostBegin(e)) /\ UNCHANGED <<routed, retry>>
    \/ (\E e \in Endpoints, s \in SentSids \cup {NoSid} : GetStream(e, s)) /\ UNCHANGED <<routed, retry>>
    \/ (\E e \in Endpoints, s \in SentSids : PostContinue(e, s)) /\ UNCHANGED <<routed, retry>>
    \/ (\E e \in Endpoints, s \in SentSids \cup {NoSid} : DeleteSession(e, s)) /\ UNCHANGED <<routed, retry>>
    \/ (\E r \in Requests : CreateServerResolved(r)) /\ UNCHANGED <<routed, retry>>
    \/ (\E r \in Requests : CreateServerRejected(r)) /\ UNCHANGED <<routed, retry>>
    \/ (\E r \in Requests : BeginAcquired(r)) /\ UNCHANGED <<routed, retry>>
    \/ (\E r \in Requests : ConnectResolved(r)) /\ UNCHANGED <<routed, retry>>
    \/ (\E r \in Requests : ConnectRejected(r)) /\ UNCHANGED <<routed, retry>>
    \/ (\E r \in Requests : BeginHandled(r)) /\ UNCHANGED <<routed, retry>>
    \/ (\E r \in Requests : BeginHandleRejected(r)) /\ UNCHANGED <<routed, retry>>
    \/ (\E r \in Requests : Forwarded(r)) /\ UNCHANGED <<routed, retry>>
    \/ (\E r \in Requests : ForwardRejected(r)) /\ UNCHANGED <<routed, retry>>
    \/ (\E r \in Requests : CloseResolved(r)) /\ UNCHANGED <<routed, retry>>
    \/ (\E r \in Requests : CloseRejected(r)) /\ UNCHANGED <<routed, retry>>
    \/ (\E r \in Requests : HookResolved(r)) /\ UNCHANGED <<routed, retry>>
    \/ (\E r \in Requests : HookRejected(r)) /\ UNCHANGED <<routed, retry>>
    \/ (\E r \in Requests : CleanupResolved(r)) /\ UNCHANGED <<routed, retry>>
    \/ (\E r \in Requests : CleanupRejected(r)) /\ UNCHANGED <<routed, retry>>

Spec == Init /\ [][Next]_vars

(* ===================== the middleware chain ============================ *)
(* lookupEndpoint (lines 102-132) and authenticateApiKey (lines 135-200)   *)
(* run before every handler.  A request in the chain is a record of        *)
(* `routed`; next() calls the following middleware synchronously, so the   *)
(* chain suspends only at `await findByName` and `await validateApiKey`.   *)

\* number of requests that reach the router over one execution
MaxRouted == 2

\* a header or query parameter that the request does not carry
Undefined == "<undefined>"

\* !value
Falsy(value) == value \in {Undefined, ""}

\* an endpoint name that endpointsRepository.findByName does not know
UnknownName == "nowhere"

\* findByName returned nothing
NoEndpoint ==
    [found |-> FALSE, enable_api_key_auth |-> FALSE,
     use_query_param_auth |-> FALSE]

\* the endpoint rows findByName can return
EndpointRows ==
    [found : {TRUE}, enable_api_key_auth : BOOLEAN,
     use_query_param_auth : BOOLEAN]

\* req.headers.authorization: absent, another scheme, or "Bearer " + token
\* (a header value arrives without trailing whitespace, so the token of a
\* value that starts with "Bearer " is never empty)
AuthorizationHeaders ==
    {[scheme |-> "none", token |-> Undefined],
     [scheme |-> "Basic", token |-> "kc"],
     [scheme |-> "Bearer", token |-> "kb"]}

\* the credentials a request can carry
Credentials ==
    [authorization : AuthorizationHeaders,
     xApiKey : {Undefined, "", "kx"},
     api_key : {Undefined, "", "kq"},
     apikey : {Undefined, "", "ka"}]

BearerMethod == "Authorization header (Bearer token)"

XApiKeyMethod == "X-API-Key header"

QueryMethod == "query parameter (api_key or apikey)"

\* a request entering the chain
RoutedRequest(kind, name, sessionId, credentials, stage) ==
    [kind |-> kind, name |-> name, sid |-> sessionId,
     credentials |-> credentials, stage |-> stage, endpoint |-> NoEndpoint,
     apiKey |-> Undefined, status |-> NoStatus, error |-> "",
     methods |-> {}]

\* res.status(status).json({error, ...}): the chain ends here
Answer(m, status, error) ==
    [m EXCEPT !.stage = "responded", !.status = status, !.error = error]

\* the query parameters are read whatever use_query_param_auth says
CandidateAnyQuery(m) ==
    LET c == m.credentials
        fromHeaders == IF c.authorization.scheme = "Bearer"
                       THEN c.authorization.token
                       ELSE c.xApiKey
    IN  IF Falsy(fromHeaders)
        THEN IF ~Falsy(c.api_key) THEN c.api_key ELSE c.apikey
        ELSE fromHeaders

\* the X-API-Key header is read before the Authorization header
CandidateXApiKeyFirst(m) ==
    LET c == m.credentials
        fromHeaders == IF ~Falsy(c.xApiKey)
                       THEN c.xApiKey
                       ELSE IF c.authorization.scheme = "Bearer"
                            THEN c.authorization.token
                            ELSE Undefined
    IN  IF Falsy(fromHeaders) /\ m.endpoint.use_query_param_auth
        THEN IF ~Falsy(c.api_key) THEN c.api_key ELSE c.apikey
        ELSE fromHeaders

\* lines 149-162: the candidate API key
Candidate(m) ==
    LET c == m.credentials
        fromHeaders == IF c.authorization.scheme = "Bearer"
                       THEN c.authorization.token
                       ELSE c.xApiKey
    IN  IF Falsy(fromHeaders) /\ m.endpoint.use_query_param_auth
        THEN IF ~Falsy(c.api_key) THEN c.api_key ELSE c.apikey
        ELSE fromHeaders

\* lines 165-171: the methods listed in the 401 message
AuthMethods(endpoint) ==
    {BearerMethod, XApiKeyMethod}
        \cup (IF endpoint.use_query_param_auth THEN {QueryMethod} ELSE {})

\* authentication is enforced on every endpoint
AuthAlwaysEnabled(endpoint) == TRUE

\* line 144: endpoint?.enable_api_key_auth
AuthEnabled(endpoint) == endpoint.enable_api_key_auth

\* lines 140-180: authenticateApiKey up to its await (or its return)
AuthenticateApiKey(m) ==
    IF ~AuthEnabled(m.endpoint)
    THEN [m EXCEPT !.stage = "next"]
    ELSE IF Falsy(Candidate(m))
    THEN [Answer(m, 401, "Authentication required") EXCEPT
             !.methods = AuthMethods(m.endpoint)]
    ELSE [m EXCEPT !.stage = "validating", !.apiKey = Candidate(m)]

\* lines 181-192: validateApiKey resolved
Validated(m, valid) ==
    IF ~valid
    THEN Answer(m, 401, "Invalid API key")
    ELSE [m EXCEPT !.stage = "next"]

\* an unknown endpoint is not turned away
EndpointMissing(endpoint) == FALSE

\* line 111: !endpoint
EndpointNotFound(endpoint) == ~endpoint.found

\* lines 110-124: findByName resolved; next() runs authenticateApiKey
LookupEndpoint(m, endpoint) ==
    IF EndpointNotFound(endpoint)
    THEN Answer(m, 404, "Endpoint not found")
    ELSE AuthenticateApiKey([m EXCEPT !.endpoint = endpoint])

\* what findByName(name) can resolve to
FindByName(name) == IF name \in Endpoints THEN EndpointRows ELSE {NoEndpoint}

(* ------------- the authenticator alone, on every input ----------------- *)

\* every request with every credential combination, on every endpoint row
AuthInputs ==
    {[RoutedRequest("POST", "shared", NoSid, c, "authenticating") EXCEPT
         !.endpoint = e] : c \in Credentials, e \in EndpointRows}

InitAuth ==
    /\ transports = EmptyRecord
    /\ metamcpServers = EmptyRecord
    /\ endpointSessionCounts = EmptyRecord
    /\ requests = <<>>
    /\ uuids = 0
    /\ created = <<>>
    /\ cleanupCalls = <<>>
    /\ sessions = EmptyRecord
    /\ failures = 0
    /\ routed \in {<<m>> : m \in AuthInputs}
    /\ retry = NotCalled

registry == <<transports, metamcpServers, endpointSessionCounts, requests,
              uuids, created, cleanupCalls, sessions>>

\* lines 135-180: authenticateApiKey is called
AuthCalled(i) ==
    /\ i \in DOMAIN routed
    /\ routed[i].stage = "authenticating"
    /\ routed' = [routed EXCEPT ![i] = AuthenticateApiKey(routed[i])]
    /\ UNCHANGED <<registry, failures>>

\* lines 180-192: validateApiKey resolved
AuthValidated(i, valid) ==
    /\ i \in DOMAIN routed
    /\ routed[i].stage = "validating"
    /\ routed' = [routed EXCEPT ![i] = Validated(routed[i], valid)]
    /\ UNCHANGED <<registry, failures>>

\* line 180 throws; lines 193-199 answer 500
AuthValidationRejected(i) ==
    /\ i \in DOMAIN routed
    /\ routed[i].stage = "validating"
    /\ CanFail
    /\ Reject
    /\ routed' = [routed EXCEPT
                     ![i] = Answer(routed[i], 500, "Internal server error")]
    /\ UNCHANGED registry

NextAuth ==
    \/ (\E i \in 1..MaxRouted : AuthCalled(i)) /\ UNCHANGED retry
    \/ (\E i \in 1..MaxRouted, valid \in BOOLEAN : AuthValidated(i, valid))
          /\ UNCHANGED retry
    \/ (\E i \in 1..MaxRouted : AuthValidationRejected(i)) /\ UNCHANGED retry

SpecAuth == InitAuth /\ [][NextAuth]_vars

(* ------------------ the whole route: chain, then handler --------------- *)

\* the requests of the whole route carry a Bearer token or nothing
RouterCredentials ==
    {c \in Credentials :
        /\ c.xApiKey = Undefined
        /\ c.apikey = Undefined
        /\ c.api_key = Undefined
        /\ c.authorization.scheme # "Basic"}

\* lines 202, 230, 328: the handler behind the chain, chosen by method
Enter(m) ==
    IF m.kind = "GET" THEN GetStream(m.name, m.sid)
    ELSE IF m.kind = "DELETE" THEN DeleteSession(m.name, m.sid)
    ELSE IF m.sid = NoSid THEN PostBegin(m.name)
    ELSE PostContinue(m.name, m.sid)

\* the chain moved request i on; reaching next() enters the handler in the
\* same synchronous step
Route(i, m) ==
    /\ routed' = [routed EXCEPT ![i] = m]
    /\ IF m.stage = "next"
       THEN Enter(m)
       ELSE UNCHANGED <<registry, failures>>

\* a request reaches the router: lookupEndpoint runs up to line 110
Receive(kind, name, sessionId, credentials) ==
    /\ Len(routed) < MaxRouted
    /\ routed' = Append(routed,
                     RoutedRequest(kind, name, sessionId, credentials,
                                   "lookup"))
    /\ UNCHANGED <<registry, failures>>

\* line 110: findByName resolved
LookupResolved(i, endpoint) ==
    /\ i \in DOMAIN routed
    /\ routed[i].stage = "lookup"
    /\ endpoint \in FindByName(routed[i].name)
    /\ Route(i, LookupEndpoint(routed[i], endpoint))

\* line 110 throws; lines 125-131 answer 500
LookupRejected(i) ==
    /\ i \in DOMAIN routed
    /\ routed[i].stage = "lookup"
    /\ CanFail
    /\ Reject
    /\ routed' = [routed EXCEPT
                     ![i] = Answer(routed[i], 500, "Internal server error")]
    /\ UNCHANGED registry

\* line 180: validateApiKey resolved; a valid key goes on to the handler
ValidateResolved(i, valid) ==
    /\ i \in DOMAIN routed
    /\ routed[i].stage = "validating"
    /\ Route(i, Validated(routed[i], valid))

NextRouter ==
    \/ (\E kind \in {"GET", "POST", "DELETE"},
           name \in Endpoints \cup {UnknownName},
           s \in SentSids \cup {NoSid},
           c \in RouterCredentials : Receive(kind, name, s, c))
          /\ UNCHANGED retry
    \/ (\E i \in 1..MaxRouted, e \in EndpointRows \cup {NoEndpoint} :
           LookupResolved(i, e)) /\ UNCHANGED retry
    \/ (\E i \in 1..MaxRouted : LookupRejected(i)) /\ UNCHANGED retry
    \/ (\E i \in 1..MaxRouted, valid \in BOOLEAN : ValidateResolved(i, valid))
          /\ UNCHANGED retry
    \/ (\E i \in 1..MaxRouted : AuthValidationRejected(i)) /\ UNCHANGED retry
    \/ (\E r \in Requests : CreateServerResolved(r)) /\ UNCHANGED <<routed, retry>>
    \/ (\E r \in Requests : CreateServerRejected(r)) /\ UNCHANGED <<routed, retry>>
    \/ (\E r \in Requests : BeginAcquired(r)) /\ UNCHANGED <<routed, retry>>
    \/ (\E r \in Requests : ConnectResolved(r)) /\ UNCHANGED <<routed, retry>>
    \/ (\E r \in Requests : ConnectRejected(r)) /\ UNCHANGED <<routed, retry>>
    \/ (\E r \in Requests : BeginHandled(r)) /\ UNCHANGED <<routed, retry>>
    \/ (\E r \in Requests : BeginHandleRejected(r)) /\ UNCHANGED <<routed, retry>>
    \/ (\E r \in Requests : Forwarded(r)) /\ UNCHANGED <<routed, retry>>
    \/ (\E r \in Requests : ForwardRejected(r)) /\ UNCHANGED <<routed, retry>>
    \/ (\E r \in Requests : CloseResolved(r)) /\ UNCHANGED <<routed, retry>>
    \/ (\E r \in Requests : CloseRejected(r)) /\ UNCHANGED <<routed, retry>>
    \/ (\E r \in Requests : HookResolved(r)) /\ UNCHANGED <<routed, retry>>
    \/ (\E r \in Requests : HookRejected(r)) /\ UNCHANGED <<routed, retry>>
    \/ (\E r \in Requests : CleanupResolved(r)) /\ UNCHANGED <<routed, retry>>
    \/ (\E r \in Requests : CleanupRejected(r)) /\ UNCHANGED <<routed, retry>>

SpecRouter == Init /\ [][NextRouter]_vars

(* ===================== retryDbQuery (auth0.ts, lines 31-46) ============ *)
(* retry.outcomes holds one entry per invocation of query, retry.attempt   *)
(* is the local `attempt`, and retry.settled is the invocation whose value *)
(* or error settled the promise that retryDbQuery returned.                *)

\* largest options.retries a caller passes
MaxRetries == 12

\* line 35: retries = 10 when options.retries is omitted
DefaultRetries == 10

\* options: retries omitted, or a count
RetryOptions ==
    {[given |-> FALSE, retries |-> DefaultRetries]}
        \cup [given : {TRUE}, retries : 0..MaxRetries]

\* the error is rethrown one failure later
GiveUpLate(attempt, retries) == attempt > retries

\* line 41: attempt >= retries
GiveUp(attempt, retries) == attempt >= retries

\* the last invocation of query settled as `outcome`
Settle(outcome) ==
    [retry.outcomes EXCEPT ![Len(retry.outcomes)] = outcome]

InitRetry ==
    /\ transports = EmptyRecord
    /\ metamcpServers = EmptyRecord
    /\ endpointSessionCounts = EmptyRecord
    /\ requests = <<>>
    /\ uuids = 0
    /\ created = <<>>
    /\ cleanupCalls = <<>>
    /\ sessions = EmptyRecord
    /\ failures = 0
    /\ routed = <<>>
    /\ retry \in {[NotCalled EXCEPT !.given = o.given, !.retries = o.retries] :
                     o \in RetryOptions}

\* lines 35-39: retryDbQuery is called and invokes query for the first time
RetryCalled ==
    /\ retry.pc = "idle"
    /\ retry' = [retry EXCEPT !.pc = "querying", !.outcomes = <<"pending">>]
    /\ UNCHANGED <<registry, failures, routed>>

\* line 39: query() resolved; its value is returned
QueryResolved ==
    /\ retry.pc = "querying"
    /\ retry' = [retry EXCEPT !.pc = "returned",
                              !.outcomes = Settle("resolved"),
                              !.settled = Len(retry.outcomes)]
    /\ UNCHANGED <<registry, failures, routed>>

\* lines 40-43: query() rejected; rethrow, or count the attempt and sleep
QueryRejected ==
    /\ retry.pc = "querying"
    /\ IF GiveUp(retry.attempt, retry.retries)
       THEN retry' = [retry EXCEPT !.pc = "thrown",
                                   !.outcomes = Settle("rejected"),
                                   !.settled = Len(retry.outcomes)]
       ELSE retry' = [retry EXCEPT !.pc = "sleeping",
                                   !.outcomes = Settle("rejected"),
                                   !.attempt = retry.attempt + 1]
    /\ UNCHANGED <<registry, failures, routed>>

\* line 43 then lines 37-39: the timer fired; query is invoked again
TimerFired ==
    /\ retry.pc = "sleeping"
    /\ retry' = [retry EXCEPT !.pc = "querying",
                              !.outcomes = Append(retry.outcomes, "pending")]
    /\ UNCHANGED <<registry, failures, routed>>

NextRetry ==
    \/ RetryCalled
    \/ QueryResolved
    \/ QueryRejected
    \/ TimerFired

SpecRetry == InitRetry /\ [][NextRetry]_vars

\* every invocation of query settles and every timer fires
SpecRetryFair == SpecRetry /\ WF_vars(NextRetry)

(* ------------------------ vocabulary of the claims --------------------- *)

\* the live sessions (entries of transports) that were begun on an endpoint
LiveSessions(endpointName) ==
    {s \in DOMAIN transports : sessions[s].ep = endpointName}

\* the createServer invocations made for an endpoint
FactoryCalls(endpointName) ==
    {i \in DOMAIN created : created[i] = endpointName}

InFlight == {r \in DOMAIN requests : requests[r].pc # "done"}

Quiescent == InFlight = {}

IsBegin(q) == q.kind = "POST" /\ q.sid = NoSid

IsContinue(q) == q.kind = "GET" \/ (q.kind = "POST" /\ q.sid # NoSid)

IsEnd(q) == q.kind = "DELETE" /\ q.sid # NoSid

\* this step is the arrival of request r
Arrives(r) == r \in DOMAIN requests' /\ r \notin DOMAIN requests

\* this step is a resumption of request r
Resumes(r) == r \in DOMAIN requests /\ requests'[r] # requests[r]

\* this step resumes request r from the await `from`
ResumesFrom(r, from) == Resumes(r) /\ requests[r].pc = from

(* -------------------------------- C1 ----------------------------------- *)

\* C1: when only Begin requests for one endpoint have arrived and no external
\* call has rejected, createServer has been invoked at most once for it, and
\* once they have all completed their sessions are bound to one instance and
\* the endpoint's session count equals their number.
C1_ConcurrentBeginsCreateOnce ==
    \A e \in Endpoints :
        (/\ Len(requests) >= 2
         /\ failures = 0
         /\ \A r \in DOMAIN requests : IsBegin(requests[r]) /\ requests[r].ep = e)
        => /\ Cardinality(FactoryCalls(e)) <= 1
           /\ Quiescent =>
                 /\ \A s, t \in DOMAIN sessions : sessions[s].inst = sessions[t].inst
                 /\ SessionCount(e) = Len(requests)

(* -------------------------------- C2 ----------------------------------- *)

\* C2: whenever no request is in flight, every endpoint's session count equals
\* the number of live sessions that were begun on it.
C2_CountEqualsLiveSessions ==
    Quiescent =>
        \A e \in Endpoints : SessionCount(e) = Cardinality(LiveSessions(e))

(* -------------------------------- C3 ----------------------------------- *)

\* C3: cleanupEndpointIfUnused calls cleanup() only when transports holds no
\* session that was begun on that endpoint.
C3_TeardownOnlyWhenUnbound ==
    [][\A r \in DOMAIN requests :
          (ResumesFrom(r, "hook") /\ requests'[r].pc = "teardown")
          => LiveSessions(requests[r].ep) = {}]_vars

(* -------------------------------- C4 ----------------------------------- *)

\* C4: the cleanup() of every instance createServer produced is invoked at
\* most once.
C4_TeardownAtMostOnce ==
    \A i \in DOMAIN cleanupCalls : cleanupCalls[i] <= 1

(* -------------------------------- C5 ----------------------------------- *)

\* C5: an End whose session id is not in the registry changes neither the
\* registry, nor any session count, nor the instance cache, and is answered
\* 404.
C5_UnknownEndIsReportedAndInert ==
    [][\A r \in DOMAIN requests' :
          (/\ IsEnd(requests'[r])
           /\ \/ Arrives(r) /\ Lookup(requests'[r].sid) = NoTransport
              \/ Resumes(r) /\ requests[r].target = NoTransport)
          => /\ UNCHANGED <<transports, endpointSessionCounts, metamcpServers>>
             /\ requests'[r].pc = "done" => requests'[r].status = 404]_vars

(* -------------------------------- C6 ----------------------------------- *)

\* C6: a Begin that failed after it obtained the endpoint's instance has left
\* no transports entry for the session id it generated, and, when it is the
\* only request there has been, has left the endpoint's session count at 0.
C6_FailedBeginRollsBack ==
    \A r \in DOMAIN requests :
        (/\ IsBegin(requests[r])
         /\ requests[r].pc = "done"
         /\ requests[r].status = 500
         /\ requests[r].newSid \in DOMAIN sessions)
        => /\ requests[r].newSid \notin DOMAIN transports
           /\ Len(requests) = 1 => SessionCount(requests[r].ep) = 0

(* -------------------------------- C7 ----------------------------------- *)

\* C7: transports never holds a session whose server.connect(transport) has
\* not completed successfully.
C7_RegisteredOnlyAfterConnect ==
    \A s \in DOMAIN transports : sessions[s].connected

(* -------------------------------- C8 ----------------------------------- *)

\* C8: a session id that was registered and has been removed from transports
\* is never in transports again, and every Continue that arrives carrying it
\* is answered 404 without being forwarded to a transport.
C8_ClosedIsTerminal ==
    [][\A s \in (DOMAIN sessions) \ (DOMAIN transports) :
          /\ s \notin DOMAIN transports'
          /\ \A r \in DOMAIN requests' :
                (Arrives(r) /\ IsContinue(requests'[r]) /\ requests'[r].sid = s)
                => /\ requests'[r].pc = "done"
                   /\ requests'[r].status = 404
                   /\ requests'[r].target = NoTransport]_vars

\* a Continue carrying an ended session id has been answered 404
C8_Witness ==
    \E r \in DOMAIN requests :
        /\ IsContinue(requests[r])
        /\ requests[r].sid \in (DOMAIN sessions) \ (DOMAIN transports)
        /\ requests[r].status = 404

(* -------------------------------- C9 ----------------------------------- *)

\* C9: a Continue that arrives carrying the id of a session that is still
\* registered is forwarded to the transport that Begin stored for that
\* session, and no step of a Continue changes transports, invokes
\* createServer, or changes a session count or the instance cache.
C9_ContinueReusesTransport ==
    [][\A r \in DOMAIN requests' :
          IsContinue(requests'[r]) =>
             /\ (Arrives(r) /\ requests'[r].sid \in DOMAIN transports)
                => /\ requests'[r].pc = "forwarding"
                   /\ requests'[r].target = sessions[requests'[r].sid].transport
             /\ (Arrives(r) \/ Resumes(r))
                => UNCHANGED <<transports, created, endpointSessionCounts,
                               metamcpServers>>]_vars

\* a Continue is suspended in the handleRequest of the transport of a session
\* that is still registered, while another session is registered too
C9_Witness ==
    \E r \in DOMAIN requests :
        /\ IsContinue(requests[r])
        /\ requests[r].pc = "forwarding"
        /\ requests[r].sid \in DOMAIN transports
        /\ requests[r].target = sessions[requests[r].sid].transport
        /\ Cardinality(DOMAIN transports) >= 2

(* -------------------------------- C10 ---------------------------------- *)

\* C10: an End of a live session lowers the session count of the endpoint the
\* session was begun on by one; then, if live sessions of that endpoint
\* remain, the instance stays cached and cleanup() is not called, and if none
\* remains cleanup() is called and the endpoint's instance is evicted.
C10_EndDropsOneReference ==
    [][\A r \in DOMAIN requests :
          (IsEnd(requests[r]) /\ requests[r].target # NoTransport) =>
             LET e == sessions[requests[r].sid].ep IN
             /\ ResumesFrom(r, "closing") /\ requests'[r].pc = "hook"
                => /\ e \in DOMAIN endpointSessionCounts
                   /\ e \in DOMAIN endpointSessionCounts'
                   /\ endpointSessionCounts'[e] = endpointSessionCounts[e] - 1
             /\ ResumesFrom(r, "hook") /\ requests'[r].status # 500
                => IF LiveSessions(e) # {}
                   THEN /\ requests'[r].pc = "done"
                        /\ e \in DOMAIN metamcpServers
                   ELSE /\ requests'[r].pc = "teardown"
                        /\ requests'[r].inst = sessions[requests[r].sid].inst
             /\ ResumesFrom(r, "teardown") /\ requests'[r].status # 500
                => e \notin DOMAIN metamcpServers']_vars

(* -------------------------------- C11 ---------------------------------- *)

\* the instances createServer produced for an endpoint: each one was handed
\* to the Begin that created it, which bound its session to it
Produced(endpointName) ==
    {sessions[s].inst : s \in {t \in DOMAIN sessions :
                                  sessions[t].ep = endpointName}}

\* C11: when no request is in flight and no End has failed, an endpoint with
\* no live session has no cached instance, and every instance produced for
\* it has had its cleanup() invoked.
C11_NoLeakWhenIdle ==
    (/\ Quiescent
     /\ \A r \in DOMAIN requests :
           IsEnd(requests[r]) => requests[r].status = 200)
    => \A e \in Endpoints :
          LiveSessions(e) = {}
          => /\ e \notin DOMAIN metamcpServers
             /\ \A i \in Produced(e) : cleanupCalls[i] >= 1

(* -------------------------------- C15 ---------------------------------- *)

\* C15: when an End leaves the await of cleanup(), resolved or rejected, the
\* instance it tore down is no longer the endpoint's cached instance.
C15_EvictedEvenIfTeardownFails ==
    [][\A r \in DOMAIN requests :
          ResumesFrom(r, "teardown")
          => \/ requests[r].ep \notin DOMAIN metamcpServers'
             \/ metamcpServers'[requests[r].ep] # requests[r].inst]_vars

(* -------------------------------- C16 ---------------------------------- *)

\* the End request r, which found its session registered, takes this step
EndOfLiveSessionSteps(r) ==
    /\ r \in DOMAIN requests'
    /\ IsEnd(requests'[r])
    /\ \/ Arrives(r) /\ requests'[r].target # NoTransport
       \/ Resumes(r) /\ requests[r].target # NoTransport

\* C16: no step of an End of a registered session changes the session count
\* or the cached instance of an endpoint other than the one the session was
\* begun on, nor invokes the cleanup() of such an endpoint's instance.
C16_EndTouchesOnlyItsEndpoint ==
    [][\A r \in DOMAIN requests' :
          EndOfLiveSessionSteps(r)
          => \A e \in Endpoints \ {sessions[requests'[r].sid].ep} :
                /\ (e \in DOMAIN endpointSessionCounts')
                       = (e \in DOMAIN endpointSessionCounts)
                /\ e \in DOMAIN endpointSessionCounts
                       => endpointSessionCounts'[e] = endpointSessionCounts[e]
                /\ (e \in DOMAIN metamcpServers') = (e \in DOMAIN metamcpServers)
                /\ e \in DOMAIN metamcpServers
                       => metamcpServers'[e] = metamcpServers[e]
                /\ \A i \in FactoryCalls(e) :
                       cleanupCalls'[i] = cleanupCalls[i]]_vars

(* -------------------------------- C17 ---------------------------------- *)

\* C17: every stored session count is an integer >= 0.
C17_CountNeverNegative ==
    \A e \in DOMAIN endpointSessionCounts : endpointSessionCounts[e] \in Nat

\* an End that found no transport has passed the decrement while its
\* endpoint's stored count was already 0
C17_Witness ==
    \E r \in DOMAIN requests :
        /\ IsEnd(requests[r])
        /\ requests[r].pc = "hook"
        /\ requests[r].target = NoTransport
        /\ requests[r].ep \in DOMAIN endpointSessionCounts
        /\ endpointSessionCounts[requests[r].ep] = 0

(* -------------------------------- C18 ---------------------------------- *)

OnlyProperEnds ==
    /\ \A r \in DOMAIN requests :
          IsEnd(requests[r])
          => /\ requests[r].sid \in DOMAIN sessions
             /\ sessions[requests[r].sid].ep = requests[r].ep
    /\ \A r, q \in DOMAIN requests :
          (IsEnd(requests[r]) /\ IsEnd(requests[q]) /\ r # q)
          => requests[r].sid # requests[q].sid

\* createServer was invoked at most once for each endpoint
CreatedOnce ==
    \A e \in Endpoints : Cardinality(FactoryCalls(e)) <= 1

\* C20: (when every End was a proper one and no endpoint's instance was
\* created twice) every live session's instance is the one cached for its
\* endpoint, its cleanup() has not been invoked, and the endpoint's count
\* entry exists.
C20_LiveSessionHasLiveInstance ==
    (OnlyProperEnds /\ CreatedOnce) =>
        \A s \in DOMAIN transports :
            /\ sessions[s].ep \in DOMAIN metamcpServers
            /\ metamcpServers[sessions[s].ep] = sessions[s].inst
            /\ cleanupCalls[sessions[s].inst] = 0
            /\ sessions[s].ep \in DOMAIN endpointSessionCounts

(* -------------------------------- C12 ---------------------------------- *)

\* C12: on an endpoint whose enable_api_key_auth is false the authenticator
\* never answers (so never 401) and never hands a key to validateApiKey:
\* once it has run, the request has gone on to next().
C12_OpenEndpointLetsAllThrough ==
    \A i \in DOMAIN routed :
        (routed[i].endpoint.found /\ ~routed[i].endpoint.enable_api_key_auth)
        => /\ routed[i].stage \in {"authenticating", "next"}
           /\ routed[i].status = NoStatus
           /\ routed[i].apiKey = Undefined

\* a request that carries a valid-looking key in every place has passed an
\* open endpoint's authenticator
C12_Witness ==
    \E i \in DOMAIN routed :
        /\ routed[i].endpoint.found
        /\ ~routed[i].endpoint.enable_api_key_auth
        /\ routed[i].stage = "next"
        /\ routed[i].credentials.authorization.scheme = "Bearer"
        /\ routed[i].credentials.xApiKey = "kx"
        /\ routed[i].credentials.api_key = "kq"

(* -------------------------------- C13 ---------------------------------- *)

\* the request carries neither a Bearer Authorization header nor an
\* X-API-Key header, and its endpoint requires a key and does not accept
\* the query parameters
NoHeaderCredential(m) ==
    /\ m.endpoint.found
    /\ m.endpoint.enable_api_key_auth
    /\ ~m.endpoint.use_query_param_auth
    /\ m.credentials.authorization.scheme # "Bearer"
    /\ m.credentials.xApiKey = Undefined

\* C13: such a request, once authenticated, has been answered 401
\* "Authentication required", no key was handed to validateApiKey, and the
\* message does not list the query parameter method.
C13_NoCredentialIsRequiredNotInvalid ==
    \A i \in DOMAIN routed :
        (NoHeaderCredential(routed[i]) /\ routed[i].stage # "authenticating")
        => /\ routed[i].stage = "responded"
           /\ routed[i].status = 401
           /\ routed[i].error = "Authentication required"
           /\ routed[i].apiKey = Undefined
           /\ routed[i].methods = {BearerMethod, XApiKeyMethod}

\* such a request that carried ?api_key=kq has been answered
C13_Witness ==
    \E i \in DOMAIN routed :
        /\ NoHeaderCredential(routed[i])
        /\ routed[i].credentials.api_key = "kq"
        /\ routed[i].stage = "responded"

(* -------------------------------- C19 ---------------------------------- *)

\* the sources of a key in the order of precedence the endpoint accepts
KeySources(m) ==
    LET c == m.credentials IN
    <<IF c.authorization.scheme = "Bearer"
         THEN c.authorization.token ELSE Undefined,
      c.xApiKey>>
    \o (IF m.endpoint.use_query_param_auth
        THEN <<c.api_key, c.apikey>> ELSE <<>>)

\* the positions of the sources that carry a non-empty value
Carrying(m) == {k \in DOMAIN KeySources(m) : ~Falsy(KeySources(m)[k])}

\* C19: on an endpoint that requires a key, once the authenticator has run:
\* if some accepted source carries a non-empty value, the key handed to
\* validateApiKey is the value of the first such source and the answer is
\* not "Authentication required"; if none does, the answer is 401
\* "Authentication required".
C19_CandidateByPrecedence ==
    \A i \in DOMAIN routed :
        (/\ routed[i].endpoint.found
         /\ routed[i].endpoint.enable_api_key_auth
         /\ routed[i].stage # "authenticating")
        => IF Carrying(routed[i]) # {}
           THEN /\ routed[i].error # "Authentication required"
                /\ \E k \in Carrying(routed[i]) :
                      /\ \A j \in Carrying(routed[i]) : k <= j
                      /\ routed[i].apiKey = KeySources(routed[i])[k]
           ELSE /\ routed[i].status = 401
                /\ routed[i].error = "Authentication required"

\* a request carrying all four sources, on an endpoint that accepts the
\* query parameters, has had its Bearer token handed to validateApiKey
C19_Witness ==
    \E i \in DOMAIN routed :
        /\ routed[i].endpoint.enable_api_key_auth
        /\ routed[i].endpoint.use_query_param_auth
        /\ routed[i].credentials.authorization.scheme = "Bearer"
        /\ routed[i].credentials.xApiKey = "kx"
        /\ routed[i].credentials.api_key = "kq"
        /\ routed[i].credentials.apikey = "ka"
        /\ routed[i].stage = "validating"
        /\ routed[i].apiKey = "kb"

(* -------------------------------- C14 ---------------------------------- *)

\* the chain answers request i with `status` in this step
AnsweredWith(i, status) ==
    /\ routed[i].stage # "responded"
    /\ routed'[i].stage = "responded"
    /\ routed'[i].status = status

\* request i leaves the chain for its handler in this step, its endpoint
\* resolved and, where the endpoint requires a key, its key validated
Admitted(i) ==
    /\ routed[i].stage \in {"lookup", "validating"}
    /\ routed'[i].stage = "next"
    /\ routed'[i].endpoint.found
    /\ routed'[i].endpoint.enable_api_key_auth
           <=> routed[i].stage = "validating"

\* C14: a step in which the chain answers 404 or 401 leaves the registry
\* (transports, endpointSessionCounts, metamcpServers), the handler
\* invocations, the createServer calls and the teardowns unchanged, and an
\* answered request stays answered; a handler is entered only in a step that
\* admits a request for the same endpoint; a key is validated only after the
\* endpoint was resolved.
C14_RejectedNeverReachesRegistry ==
    [][/\ \A i \in DOMAIN routed :
            /\ (AnsweredWith(i, 404) \/ AnsweredWith(i, 401))
               => UNCHANGED <<transports, endpointSessionCounts,
                              metamcpServers, requests, created,
                              cleanupCalls>>
            /\ routed[i].stage = "responded" => routed'[i] = routed[i]
            /\ (routed[i].stage # "validating"
                    /\ routed'[i].stage = "validating")
               => routed[i].stage = "lookup" /\ routed'[i].endpoint.found
       /\ \A r \in Requests :
            Arrives(r) => \E i \in DOMAIN routed :
                             /\ Admitted(i)
                             /\ requests'[r].ep = routed'[i].name
                             /\ requests'[r].kind = routed'[i].kind
      ]_vars

\* one request was answered 404 for an unknown endpoint, the other carried a
\* key, was validated and entered its handler
C14_Witness ==
    /\ \E i \in DOMAIN routed :
          routed[i].status = 404 /\ routed[i].name = UnknownName
    /\ \E i \in DOMAIN routed :
          /\ routed[i].stage = "next"
          /\ routed[i].endpoint.enable_api_key_auth
          /\ routed[i].apiKey = "kb"
    /\ Len(requests) = 1

(* -------------------------------- C21 ---------------------------------- *)

\* the handler entered for request r in this step found a registered
\* session under the request's session id and acts on its transport
AppliedToSession(r) ==
    /\ Arrives(r)
    /\ requests'[r].sid # NoSid
    /\ requests'[r].target # NoTransport

\* C21: a GET, Continue or End request is applied to a session only when the
\* endpoint named in its path is the endpoint the session was begun on.
C21_SessionDrivenOnlyThroughItsEndpoint ==
    [][\A r \in Requests :
          AppliedToSession(r)
          => requests'[r].ep = sessions[requests'[r].sid].ep]_vars

(* -------------------------------- C22 ---------------------------------- *)

\* retryDbQuery has returned or thrown
RetryDone == retry.pc \in {"returned", "thrown"}

\* query was invoked at most retries + 1 times; a returned call was settled
\* by its last invocation, the only one that resolved; a thrown call made
\* retries + 1 invocations, all rejected, and rethrew the last one's error
RetryBounded ==
    LET calls == Len(retry.outcomes) IN
    /\ calls <= retry.retries + 1
    /\ retry.pc = "returned"
       => /\ retry.outcomes[calls] = "resolved"
          /\ \A k \in 1..(calls - 1) : retry.outcomes[k] = "rejected"
          /\ retry.settled = calls
    /\ retry.pc = "thrown"
       => /\ calls = retry.retries + 1
          /\ \A k \in 1..calls : retry.outcomes[k] = "rejected"
          /\ retry.settled = calls

\* C22: retryDbQuery(query, {retries: r}) invokes query at most r + 1 times,
\* returns the value of the first invocation that resolves and does not
\* invoke query again, rethrows the last error when all r + 1 invocations
\* reject, and, every invocation of query settling, it terminates.
C22_RetryBoundedAndTerminates ==
    /\ []RetryBounded
    /\ [][RetryDone => retry' = retry]_vars
    /\ <>RetryDone

\* with the default options the call has thrown after 11 invocations
C22_Witness ==
    /\ ~retry.given
    /\ retry.pc = "thrown"
    /\ Len(retry.outcomes) = DefaultRetries + 1

====
